---- MODULE Spec2Model ----
(***************************************************************************)
(* Model of the timetable parser (src/parser.py).                          *)
(*                                                                         *)
(* Text.  A Python str is modelled as a sequence of lexical chunks: a      *)
(* chunk is a maximal piece of text the parser's patterns never look       *)
(* inside (a word, a four-digit year, a clock time "09:00") or a single    *)
(* character the patterns do look at (a space, a newline, a digit, "(",    *)
(* ")", "-", "#", the ellipsis character, three dots).  All string         *)
(* operations of the source (strip, split, join, replace, lower,           *)
(* startswith, "in", the regular expressions) are computed on these        *)
(* sequences the way Python computes them on characters.                   *)
(*                                                                         *)
(* The ellipsis character is the chunk "U+2026"; three ASCII dots are the  *)
(* chunk "...".  None is a one-chunk text of its own; the integer field    *)
(* semester uses NoSemester for None.                                      *)
(***************************************************************************)
EXTENDS Integers, Sequences, FiniteSets, TLC

VARIABLES
  pc,                  \* where the run is: which call is pending, or "done"
  tables,              \* parse_timetable: the extracted tables
  table_index,         \* parse_timetable: the table being walked
  row_index,           \* parse_timetable: the next row of it, 0 between tables
  header,              \* parse_timetable: the header row of the table
  day_columns,         \* parse_timetable: column -> day
  last_room,           \* parse_timetable: the carry-over room
  timetable,           \* parse_timetable: day -> room -> sessions
  before,              \* the timetable as infer_missing_semesters received it
  reference_programs,  \* the reference pool of the first page
  resolve_truncated,   \* flag
  keep_truncated,      \* flag
  cell_value,          \* parse_cell: its argument
  sessions,            \* parse_cell: its result
  program_line,        \* resolve_program_line: its argument
  resolved             \* resolve_program_line: its result

vars ==
  <<pc, tables, table_index, row_index, header, day_columns, last_room,
    timetable, before, reference_programs, resolve_truncated, keep_truncated,
    cell_value, sessions, program_line, resolved>>

walkVars == <<tables, table_index, row_index, header, day_columns, last_room>>
inferVars == <<timetable, before>>
flagVars == <<reference_programs, resolve_truncated, keep_truncated>>
cellVars == <<cell_value, sessions>>
resolveVars == <<program_line, resolved>>

None == <<"<None>">>
NoSemester == -1

\* Python truthiness of an Optional[str]: None and "" are falsy.
Falsy(s) == s = None \/ s = <<>>

-----------------------------------------------------------------------------
(* Characters and chunks *)

IsSpace(c) == c \in {" ", "\n"}

DigitChunks == <<"0", "1", "2", "3", "4", "5", "6", "7", "8", "9">>
YearChunks == {"2021", "2022", "2025", "2026"}
ClockChunks == {"09:00", "10:30", "11:00", "12:30"}

IsDigit(c) == \E i \in 1..Len(DigitChunks) : DigitChunks[i] = c
\* \d+ consumes single digits and the digits of a four-digit year alike.
IsDigits(c) == IsDigit(c) \/ c \in YearChunks

\* Chunks made of non-word characters only (regex \W); every other chunk
\* begins with a word character, and ends with one unless listed below.
NonWordChunks == {" ", "\n", "(", ")", "-", "#", "U+2026", "...", ":", ","}
EndsNonWord == {"was:", "Was:", "WAS:", "Dr."}
StartsWord(c) == c \notin NonWordChunks
EndsWord(c) == c \notin NonWordChunks /\ c \notin EndsNonWord

\* str.lower() on one chunk (chunks not listed have no upper-case letter
\* that any comparison of the parser looks at).
LowerChunk(c) ==
  CASE c \in {"SWAP", "Swap"} -> "swap"
    [] c \in {"Was:", "WAS:"} -> "was:"
    [] c \in {"Delete", "DELETE"} -> "delete"
    [] c \in {"Deleted", "DELETED"} -> "deleted"
    [] c \in {"NaN", "NAN", "Nan"} -> "nan"
    [] c \in {"Practical", "PRACTICAL"} -> "practical"
    [] c \in {"Combined", "COMBINED"} -> "combined"
    [] c \in {"Class", "CLASS"} -> "class"
    [] c \in {"BS", "Bs"} -> "bs"
    [] c \in {"MS", "Ms"} -> "ms"
    [] c \in {"PhD", "PHD"} -> "phd"
    [] c \in {"In", "IN"} -> "in"
    [] c \in {"Regular", "REGULAR"} -> "regular"
    [] c \in {"Self", "SELF"} -> "self"
    [] c \in {"Support", "SUPPORT"} -> "support"
    [] c \in {"Monday", "MONDAY"} -> "monday"
    [] c \in {"Tuesday", "TUESDAY"} -> "tuesday"
    [] c \in {"Wednesday"} -> "wednesday"
    [] c \in {"Thursday"} -> "thursday"
    [] c \in {"Friday"} -> "friday"
    [] c \in {"Saturday"} -> "saturday"
    [] c \in {"Sunday"} -> "sunday"
    [] OTHER -> c

Lower(s) == [i \in 1..Len(s) |-> LowerChunk(s[i])]

-----------------------------------------------------------------------------
(* Python string operations on chunk sequences *)

RECURSIVE LStrip(_)
LStrip(s) ==
  IF s = <<>> THEN s
  ELSE IF IsSpace(Head(s)) THEN LStrip(Tail(s)) ELSE s

RECURSIVE RStrip(_)
RStrip(s) ==
  IF s = <<>> THEN s
  ELSE IF IsSpace(s[Len(s)]) THEN RStrip(SubSeq(s, 1, Len(s) - 1)) ELSE s

\* str.strip()
Strip(s) == RStrip(LStrip(s))

\* str.split(sep) for a one-character separator: keeps empty pieces.
RECURSIVE SplitOn(_, _)
SplitOn(s, sep) ==
  IF \E i \in 1..Len(s) : s[i] = sep
  THEN LET i == CHOOSE k \in 1..Len(s) :
                  s[k] = sep /\ \A j \in 1..(k - 1) : s[j] # sep
       IN <<SubSeq(s, 1, i - 1)>> \o SplitOn(SubSeq(s, i + 1, Len(s)), sep)
  ELSE <<s>>

\* str.split() with no argument: splits on runs of whitespace, no empty pieces.
RECURSIVE Words(_)
Words(s) ==
  LET t == LStrip(s)
  IN IF t = <<>> THEN <<>>
     ELSE IF \E i \in 1..Len(t) : IsSpace(t[i])
     THEN LET i == CHOOSE k \in 1..Len(t) :
                     IsSpace(t[k]) /\ \A j \in 1..(k - 1) : ~IsSpace(t[j])
          IN <<SubSeq(t, 1, i - 1)>> \o Words(SubSeq(t, i + 1, Len(t)))
     ELSE <<t>>

\* sep.join(parts)
RECURSIVE Join(_, _)
Join(parts, sep) ==
  IF parts = <<>> THEN <<>>
  ELSE IF Len(parts) = 1 THEN parts[1]
  ELSE parts[1] \o sep \o Join(Tail(parts), sep)

\* str.replace(old, new) for a one-chunk old.
RECURSIVE Replace(_, _, _)
Replace(s, old, new) ==
  IF s = <<>> THEN <<>>
  ELSE (IF Head(s) = old THEN new ELSE <<Head(s)>>) \o Replace(Tail(s), old, new)

StartsWith(s, p) == Len(p) <= Len(s) /\ SubSeq(s, 1, Len(p)) = p
EndsWith(s, p) == Len(p) <= Len(s) /\ SubSeq(s, Len(s) - Len(p) + 1, Len(s)) = p

\* sub in s
Contains(s, sub) ==
  \E i \in 1..(Len(s) - Len(sub) + 1) : SubSeq(s, i, i + Len(sub) - 1) = sub

\* The least index from i on that holds no whitespace (Len(s) + 1 if none): \s*
RECURSIVE SkipSpaces(_, _)
SkipSpaces(s, i) ==
  IF i <= Len(s) /\ IsSpace(s[i]) THEN SkipSpaces(s, i + 1) ELSE i

\* The least index from i on that holds no digit: \d* (greedy)
RECURSIVE SkipDigits(_, _)
SkipDigits(s, i) ==
  IF i <= Len(s) /\ IsDigits(s[i]) THEN SkipDigits(s, i + 1) ELSE i

\* The first index of a set of indices, 0 when it is empty.
FirstIn(S) == IF S = {} THEN 0 ELSE CHOOSE i \in S : \A j \in S : i <= j
LastIn(S) == IF S = {} THEN 0 ELSE CHOOSE i \in S : \A j \in S : j <= i

\* normalize_spacing
normalize_spacing(value) == Join(Words(value), <<" ">>)

-----------------------------------------------------------------------------
(* The regular expressions.  A search returns the index where the leftmost *)
(* match starts, 0 when there is none.                                     *)

\* TIME_RE = \((\d{2}:\d{2})\s*-\s*(\d{2}:\d{2})\)
TimeMatchAt(s, i) ==
  /\ i + 1 <= Len(s)
  /\ s[i] = "("
  /\ s[i + 1] \in ClockChunks
  /\ LET j == SkipSpaces(s, i + 2)
     IN /\ j <= Len(s)
        /\ s[j] = "-"
        /\ LET k == SkipSpaces(s, j + 1)
           IN k + 1 <= Len(s) /\ s[k] \in ClockChunks /\ s[k + 1] = ")"

TIME_RE_search(s) == FirstIn({i \in 1..Len(s) : TimeMatchAt(s, i)})
TIME_RE_groups(s, i) ==
  <<<<s[i + 1]>>, <<s[SkipSpaces(s, SkipSpaces(s, i + 2) + 1)]>>>>

\* SESSION_RE = \b(\d{4})\s*-\s*(\d{4})\b
SessionMatchAt(s, i) ==
  /\ s[i] \in YearChunks
  /\ (i = 1 \/ ~EndsWord(s[i - 1]))
  /\ LET j == SkipSpaces(s, i + 1)
     IN /\ j <= Len(s)
        /\ s[j] = "-"
        /\ LET k == SkipSpaces(s, j + 1)
           IN /\ k <= Len(s)
              /\ s[k] \in YearChunks
              /\ (k = Len(s) \/ ~StartsWord(s[k + 1]))

SESSION_RE_search(s) == FirstIn({i \in 1..Len(s) : SessionMatchAt(s, i)})
\* group(0) of the match that starts at i
SESSION_RE_group0(s, i) ==
  SubSeq(s, i, SkipSpaces(s, SkipSpaces(s, i + 1) + 1))

\* SEMESTER_RE = Semester#\s*(\d+)     (case-sensitive)
SemesterMatchAt(s, i) ==
  /\ i + 1 <= Len(s)
  /\ s[i] = "Semester"
  /\ s[i + 1] = "#"
  /\ LET j == SkipSpaces(s, i + 2) IN j <= Len(s) /\ IsDigits(s[j])

SEMESTER_RE_search(s) == FirstIn({i \in 1..Len(s) : SemesterMatchAt(s, i)})
SEMESTER_RE_group0(s, i) ==
  SubSeq(s, i, SkipDigits(s, SkipSpaces(s, i + 2)) - 1)
SEMESTER_RE_group1(s, i) ==
  SubSeq(s, SkipSpaces(s, i + 2), SkipDigits(s, SkipSpaces(s, i + 2)) - 1)

\* int(digits)
DigitValue(c) == (CHOOSE i \in 1..Len(DigitChunks) : DigitChunks[i] = c) - 1
YearValue(c) ==
  CASE c = "2021" -> 2021
    [] c = "2022" -> 2022
    [] c = "2025" -> 2025
    [] c = "2026" -> 2026

RECURSIVE ToInt(_)
ToInt(ds) ==
  IF ds = <<>> THEN 0
  ELSE LET c == ds[Len(ds)]
           front == ToInt(SubSeq(ds, 1, Len(ds) - 1))
       IN IF IsDigit(c) THEN front * 10 + DigitValue(c)
          ELSE front * 10000 + YearValue(c)

-----------------------------------------------------------------------------
(* Line classifiers *)

DAY_NAMES ==
  << <<"Monday">>, <<"Tuesday">>, <<"Wednesday">>, <<"Thursday">>,
     <<"Friday">>, <<"Saturday">>, <<"Sunday">> >>

\* normalize_day: the first day whose lower-case name the text starts with.
normalize_day(value) ==
  LET text == Lower(Strip(value))
      hits == {d \in 1..Len(DAY_NAMES) : StartsWith(text, Lower(DAY_NAMES[d]))}
  IN IF hits = {} THEN None ELSE DAY_NAMES[FirstIn(hits)]

has_ellipsis(text) ==
  IF Falsy(text) THEN FALSE
  ELSE Contains(text, <<"U+2026">>) \/ EndsWith(text, <<"...">>)

OrNone(s) == IF s = <<>> THEN None ELSE s

split_course_line(course_line) ==
  IF Falsy(course_line) THEN <<None, None>>
  ELSE IF ~Contains(course_line, <<"#">>) THEN <<Strip(course_line), None>>
  ELSE LET i == LastIn({k \in 1..Len(course_line) : course_line[k] = "#"})
           left == SubSeq(course_line, 1, i - 1)
           right == SubSeq(course_line, i + 1, Len(course_line))
       IN <<OrNone(Strip(left)), OrNone(Strip(right))>>

is_combined_header(value) ==
  LET text == Lower(Strip(value))
  IN \/ StartsWith(text, <<"combined", " ", "class">>)
     \/ /\ text # <<>>
        /\ text[1] = "combined"
        /\ LET j == SkipSpaces(text, 2)
           IN /\ j + 1 <= Len(text)
              /\ text[j] = "("
              /\ IsDigits(text[j + 1])
              /\ LET k == SkipDigits(text, j + 1)
                 IN k <= Len(text) /\ text[k] = ")"

-----------------------------------------------------------------------------
(* Program-line resolver *)

\* The first loop of resolve_program_line: the candidate's test.
StrictMatch(candidate, prefix, session_value, semester_value) ==
  /\ ~(~Falsy(session_value) /\ ~Contains(candidate, session_value))
  /\ ~(~Falsy(semester_value)
       /\ ~Contains(Replace(candidate, " ", <<>>), semester_value))
  /\ ~Falsy(prefix)
  /\ StartsWith(candidate, prefix)

\* The second loop of resolve_program_line: the candidate's test.
FallbackMatch(candidate, session_value, semester_value) ==
  /\ ~Falsy(session_value)
  /\ Contains(candidate, session_value)
  /\ (Falsy(semester_value)
      \/ Contains(Replace(candidate, " ", <<>>), semester_value))

resolve_program_line(pline, refs) ==
  LET prefix == Strip(Replace(pline, "U+2026", <<>>))
      session_match == SESSION_RE_search(pline)
      semester_match == SEMESTER_RE_search(pline)
      session_value ==
        IF session_match # 0
        THEN SESSION_RE_group0(pline, session_match) ELSE None
      semester_value ==
        IF semester_match # 0
        THEN Replace(SEMESTER_RE_group0(pline, semester_match), " ", <<>>)
        ELSE None
      first == FirstIn({i \in 1..Len(refs) :
                 StrictMatch(refs[i], prefix,
                             session_value, semester_value)})
      second == FirstIn({i \in 1..Len(refs) :
                  FallbackMatch(refs[i],
                                session_value, semester_value)})
  IN IF first # 0 THEN refs[first]
     ELSE IF second # 0 THEN refs[second]
     ELSE pline

-----------------------------------------------------------------------------
(* Program field decomposition *)

NoFields ==
  [degree |-> None, program |-> None, section |-> None,
   session |-> None, semester |-> NoSemester]

\* re.match(r"^(BS|MS|PhD)\s+(?:in\s+)?", cleaned, re.IGNORECASE): the index
\* after the match, 0 when there is no match.
DegreeMatchEnd(cleaned) ==
  IF /\ Len(cleaned) >= 2
     /\ LowerChunk(cleaned[1]) \in {"bs", "ms", "phd"}
     /\ IsSpace(cleaned[2])
  THEN LET e == SkipSpaces(cleaned, 2)
       IN IF /\ e + 1 <= Len(cleaned)
             /\ LowerChunk(cleaned[e]) = "in"
             /\ IsSpace(cleaned[e + 1])
          THEN SkipSpaces(cleaned, e + 1)
          ELSE e
  ELSE 0

\* (Regular|Self Support)\s*\d+ with re.IGNORECASE at index i: the index of
\* the first digit, 0 when there is no match at i.
SectionDigitsAt(r, i) ==
  LET j == IF LowerChunk(r[i]) = "regular" THEN SkipSpaces(r, i + 1)
           ELSE IF /\ i + 2 <= Len(r)
                   /\ LowerChunk(r[i]) = "self"
                   /\ r[i + 1] = " "
                   /\ LowerChunk(r[i + 2]) = "support"
                THEN SkipSpaces(r, i + 3)
                ELSE 0
  IN IF j # 0 /\ j <= Len(r) /\ IsDigits(r[j]) THEN j ELSE 0

parse_program_fields(pline) ==
  IF Falsy(pline) THEN NoFields
  ELSE
    LET padded == Replace(Replace(pline, "(", <<" ", "(", " ">>),
                          ")", <<" ", ")", " ">>)
        cleaned == Join(Words(padded), <<" ">>)
        degree_end == DegreeMatchEnd(cleaned)
    IN IF degree_end = 0 THEN NoFields
       ELSE
         LET remainder == SubSeq(cleaned, degree_end, Len(cleaned))
             sec == FirstIn({i \in 1..Len(remainder) :
                      SectionDigitsAt(remainder, i) # 0})
             sec_end == SkipDigits(remainder, SectionDigitsAt(remainder, sec)) - 1
             session_match == SESSION_RE_search(cleaned)
             semester_match == SEMESTER_RE_search(cleaned)
         IN [degree |-> <<cleaned[1]>>,
             program |->
               IF sec # 0 THEN OrNone(Strip(SubSeq(remainder, 1, sec - 1)))
               ELSE None,
             section |->
               IF sec # 0 THEN normalize_spacing(SubSeq(remainder, sec, sec_end))
               ELSE None,
             session |->
               IF session_match # 0
               THEN Replace(SESSION_RE_group0(cleaned, session_match), " ", <<>>)
               ELSE None,
             semester |->
               IF semester_match # 0
               THEN ToInt(SEMESTER_RE_group1(cleaned, semester_match))
               ELSE NoSemester]

-----------------------------------------------------------------------------
(* Session field parser *)

\* The list with the element at index i removed.
RemoveAt(s, i) == SubSeq(s, 1, i - 1) \o SubSeq(s, i + 1, Len(s))

\* raw_lines_clean of parse_session
CleanLines(raw_lines) ==
  LET NonBlank(line) == Strip(line) # <<>>
      kept == SelectSeq(raw_lines, NonBlank)
  IN [i \in 1..Len(kept) |-> Strip(kept[i])]

\* The index of the teacher line in the cleaned lines: the last line with a
\* time range, 0 when there is none.
TeacherIndex(lines) == LastIn({i \in 1..Len(lines) : TIME_RE_search(lines[i]) # 0})

\* meaningful_lines of parse_session: the teacher line and the "practical"
\* lines removed.
MeaningfulLines(raw_lines) ==
  LET clean == CleanLines(raw_lines)
      teacher_index == TeacherIndex(clean)
      content == IF teacher_index # 0 THEN RemoveAt(clean, teacher_index) ELSE clean
      NotPractical(line) == Lower(Strip(line)) # <<"practical">>
      NotEmpty(line) == line # <<>>
  IN SelectSeq(SelectSeq(content, NotPractical), NotEmpty)

\* combined_class, course_line and program_line as parse_session assigns them.
AssignLines(meaningful_lines) ==
  LET At(k) == IF Len(meaningful_lines) >= k THEN meaningful_lines[k] ELSE None
  IN IF meaningful_lines = <<>>
     THEN [combined_class |-> None, course_line |-> None, program_line |-> None]
     ELSE IF is_combined_header(meaningful_lines[1])
     THEN [combined_class |-> meaningful_lines[1],
           course_line |-> At(2), program_line |-> At(3)]
     ELSE [combined_class |-> None,
           course_line |-> meaningful_lines[1], program_line |-> At(2)]

\* A choice of the program line that resolves whatever keep_truncated says;
\* ProgramLineFollowsFlags tells it from OutputProgramLine.
ResolveDespiteKeep(raw_program_line, refs, resolve, keep) ==
  IF resolve /\ has_ellipsis(raw_program_line) /\ ~Falsy(raw_program_line)
  THEN resolve_program_line(raw_program_line, refs)
  ELSE raw_program_line

\* Lines 290-295: the program line parse_session decomposes and returns.
OutputProgramLine(raw_program_line, refs, resolve, keep) ==
  IF resolve /\ has_ellipsis(raw_program_line) /\ ~Falsy(raw_program_line)
  THEN IF ~keep
       THEN resolve_program_line(raw_program_line, refs)
       ELSE raw_program_line
  ELSE raw_program_line

parse_session(raw_lines, refs, resolve, keep) ==
  LET raw_lines_clean == CleanLines(raw_lines)
      teacher_index == TeacherIndex(raw_lines_clean)
      teacher_line ==
        IF teacher_index # 0 THEN raw_lines_clean[teacher_index] ELSE None
      content_lines ==
        IF teacher_index # 0 THEN RemoveAt(raw_lines_clean, teacher_index)
        ELSE raw_lines_clean
      practical ==
        \E i \in 1..Len(content_lines) :
          Lower(Strip(content_lines[i])) = <<"practical">>
      assigned == AssignLines(MeaningfulLines(raw_lines))
      course == split_course_line(assigned.course_line)
      raw_program_line == assigned.program_line
      program_truncated == has_ellipsis(raw_program_line)
      pline == OutputProgramLine(raw_program_line, refs, resolve, keep)
      fields == parse_program_fields(pline)
      time_match == IF Falsy(teacher_line) THEN 0 ELSE TIME_RE_search(teacher_line)
      teacher_name ==
        IF Falsy(teacher_line) THEN None
        ELSE OrNone(Strip(SplitOn(teacher_line, "(")[1]))
  IN [combined_class |-> assigned.combined_class,
      course_title |-> course[1],
      course_code |-> course[2],
      course_truncated |-> has_ellipsis(course[1]),
      program_line |-> pline,
      program_truncated |-> program_truncated,
      degree |-> fields.degree,
      program |-> fields.program,
      section |-> fields.section,
      session |-> fields.session,
      semester |-> fields.semester,
      teacher_name |-> teacher_name,
      teacher_truncated |-> has_ellipsis(teacher_name),
      start_time |->
        IF time_match # 0 THEN TIME_RE_groups(teacher_line, time_match)[1] ELSE None,
      end_time |->
        IF time_match # 0 THEN TIME_RE_groups(teacher_line, time_match)[2] ELSE None,
      practical |-> practical,
      raw_lines |-> raw_lines_clean]

-----------------------------------------------------------------------------
(* Session splitter *)

\* The filter of parse_cell (lines 216-220): TRUE for a line that is kept.
KeepLine(line) ==
  /\ Strip(line) # <<>>
  /\ Lower(Strip(line)) # <<" ", "swap">>
  /\ ~StartsWith(Lower(Strip(line)), <<"was:">>)
  /\ \A i \in 1..Len(line) : LowerChunk(line[i]) \notin {"delete", "deleted"}

\* lines of parse_cell
CellLines(text) ==
  LET split == SplitOn(text, "\n")
      kept == SelectSeq(split, KeepLine)
  IN [i \in 1..Len(kept) |-> Strip(kept[i])]

\* A grouping loop without lines 233-234: the lines after the last time
\* range are dropped; GroupsPartitionKeptLines tells it from GroupLines.
RECURSIVE GroupLinesClosedOnly(_, _, _)
GroupLinesClosedOnly(lines, closed, current) ==
  IF lines = <<>> THEN closed
  ELSE LET cur == Append(current, Head(lines))
       IN IF TIME_RE_search(Head(lines)) # 0
          THEN GroupLinesClosedOnly(Tail(lines), Append(closed, cur), <<>>)
          ELSE GroupLinesClosedOnly(Tail(lines), closed, cur)

\* The grouping loop of parse_cell (lines 225-234): sessions after the lines
\* have been consumed, starting from the groups closed so far and the open group.
RECURSIVE GroupLines(_, _, _)
GroupLines(lines, closed, current) ==
  IF lines = <<>>
  THEN IF current # <<>> THEN Append(closed, current) ELSE closed
  ELSE LET cur == Append(current, Head(lines))
       IN IF TIME_RE_search(Head(lines)) # 0
          THEN GroupLines(Tail(lines), Append(closed, cur), <<>>)
          ELSE GroupLines(Tail(lines), closed, cur)

parse_cell(cell, refs, resolve, keep) ==
  LET text == Strip(IF Falsy(cell) THEN <<>> ELSE cell)
  IN IF text = <<>> THEN <<>>
     ELSE LET lines == CellLines(text)
          IN IF lines = <<>> THEN <<>>
             ELSE LET groups == GroupLines(lines, <<>>, <<>>)
                  IN [g \in 1..Len(groups) |->
                        parse_session(groups[g], refs,
                                      resolve, keep)]

-----------------------------------------------------------------------------
(* The timetable: dict day -> dict room -> list of session dicts.  Python  *)
(* dicts keep insertion order, so a dict is a sequence of entries.         *)

DayIndex(tt, day) == FirstIn({d \in 1..Len(tt) : tt[d].day = day})
RoomIndex(rooms, room) == FirstIn({r \in 1..Len(rooms) : rooms[r].room = room})

\* timetable.get(day, {}).get(room, [])
TimetableGet(tt, day, room) ==
  LET d == DayIndex(tt, day)
  IN IF d = 0 THEN <<>>
     ELSE LET r == RoomIndex(tt[d].rooms, room)
          IN IF r = 0 THEN <<>> ELSE tt[d].rooms[r].sessions

\* A store that replaces the list of the day and room by the new sessions;
\* StoredListsAreConcatenations tells it from TimetableExtend.
TimetableReplace(tt, day, room, new) ==
  LET d == DayIndex(tt, day)
  IN IF d = 0
     THEN Append(tt, [day |-> day,
                      rooms |-> <<[room |-> room, sessions |-> new]>>])
     ELSE LET rooms == tt[d].rooms
              r == RoomIndex(rooms, room)
          IN IF r = 0
             THEN [tt EXCEPT ![d].rooms =
                     Append(rooms, [room |-> room, sessions |-> new])]
             ELSE [tt EXCEPT ![d].rooms[r].sessions = new]

\* timetable.setdefault(day, {}).setdefault(room, []).extend(new)
TimetableExtend(tt, day, room, new) ==
  LET d == DayIndex(tt, day)
  IN IF d = 0
     THEN Append(tt, [day |-> day,
                      rooms |-> <<[room |-> room, sessions |-> new]>>])
     ELSE LET rooms == tt[d].rooms
              r == RoomIndex(rooms, room)
          IN IF r = 0
             THEN [tt EXCEPT ![d].rooms =
                     Append(rooms, [room |-> room, sessions |-> new])]
             ELSE [tt EXCEPT ![d].rooms[r].sessions = @ \o new]

RECURSIVE Concat(_)
Concat(seqs) == IF seqs = <<>> THEN <<>> ELSE Head(seqs) \o Concat(Tail(seqs))

\* The sessions in the order the nested loops of infer_missing_semesters
\* visit them: days, then rooms, then each room's list.
Visit(tt) ==
  Concat([d \in 1..Len(tt) |->
            Concat([r \in 1..Len(tt[d].rooms) |-> tt[d].rooms[r].sessions])])

-----------------------------------------------------------------------------
(* Semester inferencer *)

NoKey == <<>>

\* A key that does not ask for the session years; KeyedSessionsInferred
\* tells it from build_semester_key.
KeyWithoutSession(session) ==
  IF Falsy(session.degree) \/ Falsy(session.program) \/ Falsy(session.section)
  THEN NoKey
  ELSE <<normalize_spacing(session.degree),
         normalize_spacing(session.program),
         normalize_spacing(session.section)>>

build_semester_key(session) ==
  IF \/ Falsy(session.degree) \/ Falsy(session.program)
     \/ Falsy(session.section) \/ Falsy(session.session)
  THEN NoKey
  ELSE <<normalize_spacing(session.degree),
         normalize_spacing(session.program),
         normalize_spacing(session.section),
         Replace(session.session, " ", <<>>)>>

\* A first loop in which the last semester seen for a key wins;
\* VisitOrderIrrelevant tells it from FirstPassStep.
LastSeenWins(st, session) ==
  LET key == build_semester_key(session)
  IN IF key = NoKey \/ session.semester = NoSemester THEN st
     ELSE [st EXCEPT !.semester_map = (key :> session.semester) @@ @]

\* One iteration of the first loop (lines 422-429) on the state
\* [semester_map, conflicts].
FirstPassStep(st, session) ==
  LET key == build_semester_key(session)
      semester == session.semester
  IN IF key = NoKey \/ semester = NoSemester THEN st
     ELSE IF key \in DOMAIN st.semester_map /\ st.semester_map[key] # semester
     THEN [st EXCEPT !.conflicts = @ \cup {key}]
     ELSE [st EXCEPT !.semester_map = (key :> semester) @@ @]

RECURSIVE FirstPass(_, _)
FirstPass(visited, st) ==
  IF visited = <<>> THEN st
  ELSE FirstPass(Tail(visited), FirstPassStep(st, Head(visited)))

\* A second loop that fills from the map whatever the conflicts;
\* ExplicitKeptConflictsNull tells it from SecondPassStep.
FillDespiteConflict(st, session) ==
  IF session.semester # NoSemester THEN session
  ELSE LET key == build_semester_key(session)
       IN IF key # NoKey /\ key \in DOMAIN st.semester_map
          THEN [session EXCEPT !.semester = st.semester_map[key]]
          ELSE session

\* One iteration of the second loop (lines 434-441).
SecondPassStep(st, session) ==
  IF session.semester # NoSemester THEN session
  ELSE LET key == build_semester_key(session)
       IN IF key = NoKey \/ key \in st.conflicts THEN session
          ELSE IF key \in DOMAIN st.semester_map
          THEN [session EXCEPT !.semester = st.semester_map[key]]
          ELSE session

infer_missing_semesters(tt) ==
  LET st == FirstPass(Visit(tt), [semester_map |-> <<>>, conflicts |-> {}])
  IN [d \in 1..Len(tt) |->
        [day |-> tt[d].day,
         rooms |-> [r \in 1..Len(tt[d].rooms) |->
           [room |-> tt[d].rooms[r].room,
            sessions |-> [i \in 1..Len(tt[d].rooms[r].sessions) |->
              SecondPassStep(st, tt[d].rooms[r].sessions[i])]]]]]

-----------------------------------------------------------------------------
(* Table walker.  A table (table.df) is a sequence of rows, a row a        *)
(* sequence of cell texts; Python's index 0 is index 1 here.               *)

MaxHeaderScan == 10

\* df.empty: no rows or no columns
DfEmpty(df) == IF df = <<>> THEN TRUE ELSE df[1] = <<>>

RowScore(row) ==
  Cardinality({c \in 1..Len(row) : normalize_day(Strip(row[c])) # None})

\* The loop of find_header_row from row n on, with the best row and score
\* so far.
RECURSIVE ScanRows(_, _, _, _)
ScanRows(df, n, best_row, best_score) ==
  IF n > Len(df) \/ n > MaxHeaderScan THEN best_row
  ELSE LET score == RowScore(df[n])
       IN IF score > best_score
          THEN ScanRows(df, n + 1, n, score)
          ELSE ScanRows(df, n + 1, best_row, best_score)

\* find_header_row: the first row, among the first ten, with the most day names.
find_header_row(df) == ScanRows(df, 1, 1, 0)

\* header of parse_timetable (line 83)
HeaderOf(row) == [c \in 1..Len(row) |-> Strip(row[c])]

\* The loop of lines 86-93.  day_columns is the sequence, column by column,
\* of the day the column is mapped to, None for a column that is no key of
\* the dict.
RECURSIVE MapColumns(_, _, _, _)
MapColumns(hdr, idx, last_day, columns) ==
  IF idx > Len(hdr) THEN columns
  ELSE LET value == hdr[idx]
           day == normalize_day(value)
       IN IF day # None
          THEN MapColumns(hdr, idx + 1, day, Append(columns, day))
          ELSE IF idx > 1 /\ last_day # None /\ value = <<>>
          THEN MapColumns(hdr, idx + 1, last_day, Append(columns, last_day))
          ELSE MapColumns(hdr, idx + 1, last_day, Append(columns, None))

DayColumns(hdr) == MapColumns(hdr, 1, None, <<>>)

\* room of a row (lines 100-102)
RowRoom(row) ==
  LET room == Strip(normalize_spacing(Replace(row[1], "\n", <<" ">>)))
  IN IF Lower(room) = <<"nan">> THEN <<>> ELSE room

\* has_content (lines 104-107)
HasContent(row) ==
  \E c \in 2..Len(row) :
    Strip(row[c]) # <<>> /\ Lower(Strip(row[c])) # <<"nan">>

\* The room the row's sessions are stored under, None when the row is
\* skipped (lines 98-113).
AssignedRoom(row, carry) ==
  IF row = <<>> THEN None
  ELSE IF RowRoom(row) = <<>>
  THEN IF HasContent(row) /\ ~Falsy(carry) THEN carry ELSE None
  ELSE RowRoom(row)

\* A carry-over room that a blank row without content clears;
\* RoomsCarryWithinTable tells it from NextLastRoom.
LastRoomClearedBySkip(row, carry) ==
  IF row # <<>> /\ RowRoom(row) # <<>> THEN RowRoom(row)
  ELSE IF row # <<>> /\ HasContent(row) THEN carry
  ELSE None

\* last_room after the row (line 113)
NextLastRoom(row, carry) ==
  IF row # <<>> /\ RowRoom(row) # <<>> THEN RowRoom(row) ELSE carry

\* day_values (lines 115-125): in the order of the dict's keys, each day with
\* the stripped cells of its columns.
RECURSIVE DayValues(_, _, _, _)
DayValues(row, columns, col, day_values) ==
  IF col > Len(columns) THEN day_values
  ELSE IF columns[col] = None \/ col > Len(row)
  THEN DayValues(row, columns, col + 1, day_values)
  ELSE LET cell == row[col]
           day == columns[col]
           k == FirstIn({i \in 1..Len(day_values) : day_values[i].day = day})
       IN IF Lower(cell) = <<"nan">> \/ Strip(cell) = <<>>
          THEN DayValues(row, columns, col + 1, day_values)
          ELSE IF k = 0
          THEN DayValues(row, columns, col + 1,
                 Append(day_values, [day |-> day, parts |-> <<Strip(cell)>>]))
          ELSE DayValues(row, columns, col + 1,
                 [day_values EXCEPT ![k].parts = Append(@, Strip(cell))])

\* The loop of lines 127-139 over day_values, from its k-th entry on.
RECURSIVE StoreDays(_, _, _, _, _, _, _)
StoreDays(tt, room, day_values, k, refs, resolve, keep) ==
  IF k > Len(day_values) THEN tt
  ELSE LET cell == Join(day_values[k].parts, <<"\n">>)
           parsed == parse_cell(cell, refs, resolve, keep)
       IN IF parsed = <<>>
          THEN StoreDays(tt, room, day_values, k + 1, refs, resolve, keep)
          ELSE StoreDays(TimetableExtend(tt, day_values[k].day, room, parsed),
                         room, day_values, k + 1, refs, resolve, keep)

-----------------------------------------------------------------------------
(* Bounds and the texts the inputs are drawn from *)

MaxSessions == 3
MaxLines == 3
MaxPool == 2
MaxCols == 4
MaxItems == 4

\* All sequences over S of length at most n.
SeqsUpTo(S, n) == UNION {[1..k -> S] : k \in 0..n}

ProgramFull3 ==
  <<"BS", " ", "CS", " ", "Regular", " ", "1", " ", "2021", "-", "2025", " ",
    "Semester", "#", " ", "3">>
ProgramFull4 ==
  <<"BS", " ", "CS", " ", "Regular", " ", "1", " ", "2021", "-", "2025", " ",
    "Semester", "#", " ", "4">>
ProgramNoSemester ==
  <<"BS", " ", "CS", " ", "Regular", " ", " ", "1", " ",
    "2021", " ", "-", " ", "2025">>
ProgramOther4 ==
  <<"BS", " ", "CS", " ", "Regular", " ", "2", " ", "2021", "-", "2025", " ",
    "Semester", "#", "4">>
ProgramNoSession3 ==
  <<"BS", " ", "CS", " ", "Regular", " ", "1", " ", "Semester", "#", " ", "3">>
ProgramNoSession ==
  <<"BS", " ", "CS", " ", "Regular", " ", "1">>

TeacherLine == <<"Dr.", " ", "Smith", " ", "(", "09:00", " ", "-", " ", "10:30", ")">>
CourseLine(i) == <<"Course", DigitChunks[i + 1], " ", "#", " ", "CS", DigitChunks[i + 1]>>

-----------------------------------------------------------------------------
(* infer_missing_semesters on the timetables parse_timetable can build *)

InferPrograms ==
  {ProgramFull3, ProgramFull4, ProgramNoSemester, ProgramOther4,
   ProgramNoSession3, ProgramNoSession}

Slots == {<<<<"Monday">>, <<"R", "1">>>>, <<<<"Tuesday">>, <<"R", "1">>>>}

\* The session dict parse_session makes of the i-th course with program line p.
SessionOf(i, p) == parse_session(<<CourseLine(i), p, TeacherLine>>, <<>>, FALSE, FALSE)
SessionTable == [i \in 1..MaxSessions, p \in InferPrograms |-> SessionOf(i, p)]

\* The timetable after the sessions have been stored, one by one, each under
\* its slot.
RECURSIVE Stored(_, _, _, _)
Stored(tt, progs, slots, i) ==
  IF i > Len(progs) THEN tt
  ELSE Stored(TimetableExtend(tt, slots[i][1], slots[i][2],
                              <<SessionTable[i, progs[i]]>>),
              progs, slots, i + 1)

IdleWalk ==
  /\ tables = <<>> /\ table_index = 0 /\ row_index = 0
  /\ header = <<>> /\ day_columns = <<>> /\ last_room = None
IdleInfer == timetable = <<>> /\ before = <<>>
IdleFlags ==
  reference_programs = <<>> /\ resolve_truncated = FALSE /\ keep_truncated = FALSE
IdleCell == cell_value = <<>> /\ sessions = <<>>
IdleResolve == program_line = <<>> /\ resolved = <<>>

InitInfer ==
  /\ pc = "infer"
  /\ \E n \in 0..MaxSessions :
       \E progs \in [1..n -> InferPrograms], slots \in [1..n -> Slots] :
         timetable = Stored(<<>>, progs, slots, 1)
  /\ before = <<>>
  /\ IdleWalk /\ IdleFlags /\ IdleCell /\ IdleResolve

\* Line 141: the call of infer_missing_semesters.
InferMissingSemesters ==
  /\ pc = "infer"
  /\ before' = timetable
  /\ timetable' = infer_missing_semesters(timetable)
  /\ pc' = "done"
  /\ UNCHANGED <<walkVars, flagVars, cellVars, resolveVars>>

NextInfer == InferMissingSemesters

SpecInfer == InitInfer /\ [][NextInfer]_vars

-----------------------------------------------------------------------------
(* parse_cell on the cells the table walk can hand to it *)

CourseText == <<"Intro", " ", "#", " ", "CS", "1">>
ProgramCut == <<"BS", " ", "CS", "U+2026">>
ProgramDots ==
  <<"BS", " ", "CS", " ", "Regular", " ", "1", " ", "2021", "-", "2025", " ", "...">>

\* The reference pool extract_program_lines harvests: stripped lines that
\* hold a session-years token and a semester token.
ReferencePrograms == <<ProgramOther4, ProgramFull3>>

CellLinePool ==
  {CourseText, ProgramCut, ProgramDots, TeacherLine,
   <<"swap">>, <<" ", "SWAP", " ">>, <<"was:", " ", "Lab">>,
   <<"X", " ", "deleted">>, <<" ">>}

InitCell ==
  /\ pc = "cell"
  /\ \E lines \in SeqsUpTo(CellLinePool, MaxLines) :
       cell_value = Join(lines, <<"\n">>)
  /\ sessions = <<>>
  /\ resolve_truncated \in BOOLEAN
  /\ keep_truncated \in BOOLEAN
  \* line 74: the pool is read only when resolution is on
  /\ reference_programs = IF resolve_truncated THEN ReferencePrograms ELSE <<>>
  /\ IdleWalk /\ IdleInfer /\ IdleResolve

\* Lines 129-134: the call of parse_cell.
ParseCell ==
  /\ pc = "cell"
  /\ sessions' = parse_cell(cell_value, reference_programs,
                            resolve_truncated, keep_truncated)
  /\ pc' = "done"
  /\ UNCHANGED <<walkVars, inferVars, flagVars, cell_value, resolveVars>>

NextCell == ParseCell

SpecCell == InitCell /\ [][NextCell]_vars

-----------------------------------------------------------------------------
(* resolve_program_line on the lines parse_session can hand to it *)

\* Line 292: only a truncated, stripped, non-empty line is resolved.
TruncatedLines ==
  {ProgramCut, ProgramDots,
   <<"U+2026">>,
   <<"BS", " ", "CS", " ", "Regular", " ", "1", " ", "2021", "-", "2025", "U+2026">>,
   <<"BS", " ", "Math", " ", "2021", "-", "2025", " ", "Semester", "#", "4", "U+2026">>,
   <<"BS", " ", "CS", " ", "Regular", " ", "1", " ", "2022", "-", "2026", "U+2026">>,
   <<"MS", "U+2026", " ", "Semester", "#", " ", "3">>}

Candidates ==
  {ProgramFull3, ProgramFull4, ProgramOther4,
   <<"MS", " ", "CS", " ", "Regular", " ", "1", " ", "2022", "-", "2026", " ",
     "Semester", "#", "3", "1">>}

InitResolve ==
  /\ pc = "resolve"
  /\ program_line \in TruncatedLines
  /\ reference_programs \in SeqsUpTo(Candidates, MaxPool)
  /\ resolved = <<>>
  /\ resolve_truncated = TRUE
  /\ keep_truncated \in BOOLEAN
  /\ IdleWalk /\ IdleInfer /\ IdleCell

\* Line 293: the call of resolve_program_line.
ResolveProgramLine ==
  /\ pc = "resolve"
  /\ resolved' = resolve_program_line(program_line, reference_programs)
  /\ pc' = "done"
  /\ UNCHANGED <<walkVars, inferVars, flagVars, cellVars, program_line>>

NextResolve == ResolveProgramLine

SpecResolve == InitResolve /\ [][NextResolve]_vars

-----------------------------------------------------------------------------
(* The column-to-day mapping on the header rows a table can have *)

HeaderCells ==
  {<<"Room">>, <<"Monday">>, <<" ", "MONDAY", " ", "(", "X", ")">>, <<"Tuesday">>,
   <<>>, <<" ">>, <<"nan">>}

InitHeader ==
  /\ pc = "header"
  /\ \E row \in SeqsUpTo(HeaderCells, MaxCols) :
       /\ row # <<>>
       /\ tables = <<<<row>>>>
  /\ table_index = 1
  /\ row_index = 0
  /\ header = <<>>
  /\ day_columns = <<>>
  /\ last_room = None
  /\ IdleInfer /\ IdleFlags /\ IdleCell /\ IdleResolve

\* Lines 82-93: the header row of the table and its columns' days.
MapHeader ==
  /\ pc = "header"
  /\ LET df == tables[table_index]
         header_row == find_header_row(df)
     IN /\ header' = HeaderOf(df[header_row])
        /\ day_columns' = DayColumns(HeaderOf(df[header_row]))
        /\ row_index' = header_row + 1
  /\ pc' = "done"
  /\ UNCHANGED <<tables, table_index, last_room, inferVars, flagVars,
                 cellVars, resolveVars>>

NextHeader == MapHeader

SpecHeader == InitHeader /\ [][NextHeader]_vars

-----------------------------------------------------------------------------
(* parse_timetable: the walk over the tables, then the inference *)

RoomText == <<"Room">>
RoomOne == <<"R", "1">>
RoomTwo == <<"R", "\n", "2">>
Nan == <<"nan">>
CellFull == <<"Algo", "\n">> \o ProgramFull3 \o <<"\n">> \o TeacherLine
CellOpen == <<"Intro", "\n">> \o ProgramNoSemester

\* A header row whose second day column is a blank cell under a merged day
\* header, and a table whose header row follows a title row.
TableTops ==
  {<<>>,
   <<<<RoomText, <<"Monday">>, <<>>>>>>,
   <<<<<<"X">>, <<>>, <<>>>>, <<<<>>, <<"Tuesday">>, <<"Monday">>>>>>}

DataRows ==
  {<<RoomOne, CellFull, <<>>>>,
   <<RoomTwo, CellOpen, Nan>>,
   <<Nan, CellOpen, CellFull>>,
   <<<<>>, Nan, <<" ">>>>}

\* What the extractor yields, piece by piece: a new table (its rows down to
\* the header row) or one more data row of the table last begun.
Pieces ==
  {[new |-> TRUE, rows |-> top] : top \in TableTops}
    \cup {[new |-> FALSE, rows |-> <<row>>] : row \in DataRows}

RECURSIVE TablesOf(_, _)
TablesOf(pieces, acc) ==
  IF pieces = <<>> THEN acc
  ELSE LET piece == Head(pieces)
       IN IF piece.new \/ acc = <<>> \/ acc[Len(acc)] = <<>>
          THEN TablesOf(Tail(pieces), Append(acc, piece.rows))
          ELSE TablesOf(Tail(pieces),
                        [acc EXCEPT ![Len(acc)] = @ \o piece.rows])

InitWalk ==
  /\ pc = "walk"
  /\ \E pieces \in SeqsUpTo(Pieces, MaxItems) :
       /\ pieces # <<>> => pieces[1].new
       /\ tables = TablesOf(pieces, <<>>)
  /\ table_index = 1
  /\ row_index = 0
  /\ header = <<>>
  /\ day_columns = <<>>
  /\ last_room = None
  /\ timetable = <<>>
  /\ before = <<>>
  /\ resolve_truncated = TRUE
  /\ keep_truncated = FALSE
  /\ reference_programs = ReferencePrograms
  /\ IdleCell /\ IdleResolve

\* Lines 78-81: an empty table is passed over.
SkipEmptyTable ==
  /\ pc = "walk" /\ row_index = 0
  /\ table_index <= Len(tables)
  /\ DfEmpty(tables[table_index])
  /\ table_index' = table_index + 1
  /\ UNCHANGED <<pc, tables, row_index, header, day_columns, last_room,
                 inferVars, flagVars, cellVars, resolveVars>>

\* Lines 82-95: the header row, the columns' days, no carry-over room.
StartTable ==
  /\ pc = "walk" /\ row_index = 0
  /\ table_index <= Len(tables)
  /\ ~DfEmpty(tables[table_index])
  /\ LET df == tables[table_index]
         header_row == find_header_row(df)
     IN /\ header' = HeaderOf(df[header_row])
        /\ day_columns' = DayColumns(HeaderOf(df[header_row]))
        /\ row_index' = header_row + 1
  /\ last_room' = None
  /\ UNCHANGED <<pc, tables, table_index, inferVars, flagVars, cellVars,
                 resolveVars>>

\* Lines 97-111: a row the loop passes over.
SkipRow ==
  /\ pc = "walk" /\ row_index # 0
  /\ row_index <= Len(tables[table_index])
  /\ LET row == tables[table_index][row_index]
     IN /\ AssignedRoom(row, last_room) = None
        /\ last_room' = NextLastRoom(row, last_room)
  /\ row_index' = row_index + 1
  /\ UNCHANGED <<pc, tables, table_index, header, day_columns, inferVars,
                 flagVars, cellVars, resolveVars>>

\* Lines 97-139: a row with a room; its cells are parsed day by day and the
\* sessions stored.
StoreRow ==
  /\ pc = "walk" /\ row_index # 0
  /\ row_index <= Len(tables[table_index])
  /\ LET row == tables[table_index][row_index]
         room == AssignedRoom(row, last_room)
     IN /\ room # None
        /\ last_room' = NextLastRoom(row, last_room)
        /\ timetable' =
             StoreDays(timetable, room, DayValues(row, day_columns, 1, <<>>), 1,
                       reference_programs, resolve_truncated, keep_truncated)
  /\ row_index' = row_index + 1
  /\ UNCHANGED <<pc, tables, table_index, header, day_columns, before,
                 flagVars, cellVars, resolveVars>>

\* Line 96: the rows of the table are exhausted.
EndTable ==
  /\ pc = "walk" /\ row_index # 0
  /\ row_index > Len(tables[table_index])
  /\ table_index' = table_index + 1
  /\ row_index' = 0
  /\ UNCHANGED <<pc, tables, header, day_columns, last_room, inferVars,
                 flagVars, cellVars, resolveVars>>

\* Line 141: all tables walked, the semesters are inferred.
InferSemesters ==
  /\ pc = "walk" /\ row_index = 0
  /\ table_index > Len(tables)
  /\ before' = timetable
  /\ timetable' = infer_missing_semesters(timetable)
  /\ pc' = "done"
  /\ UNCHANGED <<walkVars, flagVars, cellVars, resolveVars>>

NextWalk ==
  \/ SkipEmptyTable
  \/ StartTable
  \/ SkipRow
  \/ StoreRow
  \/ EndTable
  \/ InferSemesters

SpecWalk == InitWalk /\ [][NextWalk]_vars

-----------------------------------------------------------------------------
(* Properties of infer_missing_semesters (SpecInfer) *)

Missing(v) == v = None \/ v = <<>>

\* The session has all four fields of the identity key.
Keyed(s) ==
  ~Missing(s.degree) /\ ~Missing(s.program) /\ ~Missing(s.section)
    /\ ~Missing(s.session)

\* Two sessions carry the same normalised (degree, program, section,
\* session-years) key.
SameKey(s, t) ==
  /\ Keyed(s) /\ Keyed(t)
  /\ normalize_spacing(s.degree) = normalize_spacing(t.degree)
  /\ normalize_spacing(s.program) = normalize_spacing(t.program)
  /\ normalize_spacing(s.section) = normalize_spacing(t.section)
  /\ Replace(s.session, " ", <<>>) = Replace(t.session, " ", <<>>)

\* The explicit semesters the input carries for the key of s.
ExplicitOf(input, s) ==
  {input[j].semester : j \in {k \in 1..Len(input) :
      SameKey(input[k], s) /\ input[k].semester # NoSemester}}

Input == Visit(before)
Output == Visit(timetable)

\* C1: after the call every session that had a semester is unchanged, and
\* every session without one whose key the input carries with two different
\* semesters is still without one.
ExplicitKeptConflictsNull ==
  pc = "done" =>
    /\ Len(Output) = Len(Input)
    /\ \A i \in 1..Len(Input) :
         /\ Input[i].semester # NoSemester => Output[i] = Input[i]
         /\ (Input[i].semester = NoSemester
               /\ Cardinality(ExplicitOf(Input, Input[i])) >= 2)
              => Output[i].semester = NoSemester

\* A call on a timetable in which a session without semester precedes two
\* sessions of its key with different semesters.
ConflictAfterOpenSession ==
  /\ pc = "done"
  /\ \E i, j, k \in 1..Len(Input) :
       /\ i < j /\ j < k
       /\ Input[i].semester = NoSemester
       /\ SameKey(Input[i], Input[j]) /\ SameKey(Input[i], Input[k])
       /\ Input[j].semester # NoSemester /\ Input[k].semester # NoSemester
       /\ Input[j].semester # Input[k].semester
       /\ Output[i].semester = NoSemester

\* C2: a session without semester, with all four key fields, whose key the
\* input carries with exactly one semester value receives that value and
\* nothing else of it changes; a session lacking a key field is unchanged,
\* and a keyed session with no keyed source stays as it is.
KeyedSessionsInferred ==
  pc = "done" =>
    /\ Len(Output) = Len(Input)
    /\ \A i \in 1..Len(Input) :
         /\ (Input[i].semester = NoSemester /\ Keyed(Input[i]))
              => \A v \in ExplicitOf(Input, Input[i]) :
                   ExplicitOf(Input, Input[i]) = {v}
                     => Output[i] = [Input[i] EXCEPT !.semester = v]
         /\ ~Keyed(Input[i]) => Output[i] = Input[i]
         /\ (Keyed(Input[i]) /\ ExplicitOf(Input, Input[i]) = {})
              => Output[i] = Input[i]

\* A call that fills a session from a later session of its key, next to a
\* session with no session years that has a semester and one that has neither.
FilledBesideKeyless ==
  /\ pc = "done"
  /\ \E i, j \in 1..Len(Input) :
       /\ i < j
       /\ Input[i].semester = NoSemester /\ SameKey(Input[i], Input[j])
       /\ Output[i].semester = Input[j].semester
       /\ Output[i].semester # NoSemester
  /\ \E i \in 1..Len(Input) :
       ~Keyed(Input[i]) /\ Input[i].semester # NoSemester

\* The timetable that holds the sessions of input in the order perm, all in
\* one list.
Rearranged(input, perm) ==
  <<[day |-> <<"Monday">>,
     rooms |-> <<[room |-> <<"R", "1">>,
                  sessions |-> [i \in 1..Len(input) |-> input[perm[i]]]]>>]>>

\* C3: whatever the order the sessions are visited in, each session gets
\* the semester it got in the call.
VisitOrderIrrelevant ==
  pc = "done" =>
    \A perm \in Permutations(1..Len(Input)) :
      LET other == Visit(infer_missing_semesters(Rearranged(Input, perm)))
      IN \A i \in 1..Len(Input) : other[i] = Output[perm[i]]

\* A call in which the visiting order is at stake: a session without semester
\* between two sessions of its key whose semesters differ, in a timetable
\* with two days.
OpenSessionBetweenConflict ==
  /\ pc = "done"
  /\ Len(before) = 2
  /\ \E i, j, k \in 1..Len(Input) :
       /\ i < j /\ j < k
       /\ Input[j].semester = NoSemester
       /\ SameKey(Input[i], Input[j]) /\ SameKey(Input[j], Input[k])
       /\ Input[i].semester # NoSemester /\ Input[k].semester # NoSemester
       /\ Input[i].semester # Input[k].semester

-----------------------------------------------------------------------------
(* Properties of parse_cell and parse_session (SpecCell) *)

\* The lines of the cell, trimmed, the blank ones left out.
NonBlankLines(cell) ==
  LET NonBlank(line) == Strip(line) # <<>>
      split == SelectSeq(SplitOn(cell, "\n"), NonBlank)
  IN [i \in 1..Len(split) |-> Strip(split[i])]

\* A noise line: trimmed and in lower case it is "swap", starts with "was:"
\* or contains "delete".
IsNoise(line) ==
  \/ Lower(line) = <<"swap">>
  \/ StartsWith(Lower(line), <<"was:">>)
  \/ \E i \in 1..Len(line) : LowerChunk(line[i]) \in {"delete", "deleted"}

IsTimeLine(line) == TIME_RE_search(line) # 0

\* C4: a cell all of whose non-blank lines are noise lines yields no session.
NoiseOnlyCellYieldsNothing ==
  (pc = "done"
     /\ \A i \in 1..Len(NonBlankLines(cell_value)) :
          IsNoise(NonBlankLines(cell_value)[i]))
    => sessions = <<>>

\* The non-blank lines of the cell that are no noise lines.
NonNoiseLines(cell) ==
  LET NotNoise(line) == ~IsNoise(line)
  IN SelectSeq(NonBlankLines(cell), NotNoise)

\* The sessions' raw_lines partition the lines in order; no group is empty;
\* a group before the last ends with its only time-range line; the last
\* ends with its only time-range line or has none; there are as many
\* sessions as time-range lines, and one more when lines follow the last
\* time-range line.
SessionsPartition(lines) ==
  LET groups == [g \in 1..Len(sessions) |-> sessions[g].raw_lines]
      times == {i \in 1..Len(lines) : IsTimeLine(lines[i])}
      ClosedGroup(group) ==
        /\ IsTimeLine(group[Len(group)])
        /\ \A i \in 1..(Len(group) - 1) : ~IsTimeLine(group[i])
      OpenGroup(group) == \A i \in 1..Len(group) : ~IsTimeLine(group[i])
  IN /\ Concat(groups) = lines
     /\ \A g \in 1..Len(groups) : groups[g] # <<>>
     /\ \A g \in 1..(Len(groups) - 1) : ClosedGroup(groups[g])
     /\ groups # <<>> =>
          ClosedGroup(groups[Len(groups)]) \/ OpenGroup(groups[Len(groups)])
     /\ Len(groups) =
          Cardinality(times)
            + (IF lines # <<>> /\ ~IsTimeLine(lines[Len(lines)]) THEN 1 ELSE 0)

\* C5: the groups parse_cell makes partition the non-noise lines of the cell
\* in order: the sessions' raw_lines concatenated are those lines, every
\* group but the last ends with its only time-range line, and the sessions
\* are as many as the time-range lines, plus one for trailing lines.
GroupsPartitionNonNoiseLines ==
  pc = "done" => SessionsPartition(NonNoiseLines(cell_value))

\* The lines the filter of parse_cell keeps.
KeptLines(cell) == SelectSeq(NonBlankLines(cell), KeepLine)

\* The grouping loop by itself: the groups partition, as above, the lines
\* the filter has kept, whatever the filter takes for noise.
GroupsPartitionKeptLines ==
  pc = "done" => SessionsPartition(KeptLines(cell_value))

\* A cell split into a group of two lines closed by a time range and a
\* trailing group without one.
ClosedThenTrailingGroup ==
  /\ pc = "done"
  /\ Len(sessions) = 2
  /\ Len(sessions[1].raw_lines) = 2
  /\ IsTimeLine(sessions[1].raw_lines[2])
  /\ \A i \in 1..Len(sessions[2].raw_lines) : ~IsTimeLine(sessions[2].raw_lines[i])

\* The program line of the group before any resolution.
OriginalProgramLine(s) == AssignLines(MeaningfulLines(s.raw_lines)).program_line

\* The line carries an ellipsis marker.
CarriesEllipsis(line) ==
  /\ ~Missing(line)
  /\ (\E i \in 1..Len(line) : line[i] = "U+2026") \/ line[Len(line)] = "..."

\* C7: program_truncated tells whether the original program line carries an
\* ellipsis marker, whatever the flags; program_line is the resolver's result
\* when resolve_truncated is on, keep_truncated off and the line truncated,
\* the original line otherwise; the five fields are those of program_line.
ProgramLineFollowsFlags ==
  pc = "done" =>
    \A g \in 1..Len(sessions) :
      LET s == sessions[g]
          original == OriginalProgramLine(s)
          fields == parse_program_fields(s.program_line)
      IN /\ s.program_truncated = CarriesEllipsis(original)
         /\ s.program_line =
              IF resolve_truncated /\ ~keep_truncated /\ CarriesEllipsis(original)
              THEN resolve_program_line(original, reference_programs)
              ELSE original
         /\ s.degree = fields.degree /\ s.program = fields.program
         /\ s.section = fields.section /\ s.session = fields.session
         /\ s.semester = fields.semester

\* A truncated program line that a candidate resolves, parsed once with both
\* flags on: the output keeps the truncated text.
TruncatedLineKept ==
  /\ pc = "done"
  /\ resolve_truncated /\ keep_truncated
  /\ \E g \in 1..Len(sessions) :
       /\ sessions[g].program_truncated
       /\ sessions[g].program_line = OriginalProgramLine(sessions[g])
       /\ resolve_program_line(sessions[g].program_line, reference_programs)
            # sessions[g].program_line

-----------------------------------------------------------------------------
(* Properties of resolve_program_line (SpecResolve) *)

\* The line without its ellipsis markers, trimmed.
EllipsisStripped(line) ==
  LET cut == Replace(line, "U+2026", <<>>)
  IN Strip(IF cut # <<>> /\ cut[Len(cut)] = "..."
           THEN SubSeq(cut, 1, Len(cut) - 1) ELSE cut)

SessionToken(line) ==
  IF SESSION_RE_search(line) # 0
  THEN SESSION_RE_group0(line, SESSION_RE_search(line)) ELSE None

SemesterToken(line) ==
  IF SEMESTER_RE_search(line) # 0
  THEN Replace(SEMESTER_RE_group0(line, SEMESTER_RE_search(line)), " ", <<>>)
  ELSE None

\* The candidate satisfies the constraints the line carries.
MeetsConstraints(candidate, line) ==
  /\ SessionToken(line) # None => Contains(candidate, SessionToken(line))
  /\ SemesterToken(line) # None
       => Contains(Replace(candidate, " ", <<>>), SemesterToken(line))

\* C6: the result is the first candidate that starts with the
\* ellipsis-stripped prefix of the line and meets its constraints; failing
\* that, the first candidate that holds the line's session-years token (and
\* its semester token if it has one); failing that, the line itself.
ResolverPicksClaimedCandidate ==
  pc = "done" =>
    LET pool == reference_programs
        strict == FirstIn({i \in 1..Len(pool) :
                    /\ StartsWith(pool[i], EllipsisStripped(program_line))
                    /\ MeetsConstraints(pool[i], program_line)})
        fallback == FirstIn({i \in 1..Len(pool) :
                      /\ SessionToken(program_line) # None
                      /\ MeetsConstraints(pool[i], program_line)})
    IN resolved = IF strict # 0 THEN pool[strict]
                  ELSE IF fallback # 0 THEN pool[fallback]
                  ELSE program_line

-----------------------------------------------------------------------------
(* Properties of the column-to-day mapping (SpecHeader) *)

\* A header cell that is blank, the absent cell "nan" included.
BlankHeaderCell(cell) == Strip(cell) = <<>> \/ Strip(cell) = <<"nan">>

\* The day-named columns left of column c.
DaysLeftOf(row, c) == {d \in 1..(c - 1) : normalize_day(Strip(row[d])) # None}

\* C8: a column whose header cell names a day is mapped to that day; a
\* column after the first whose header cell is blank (or "nan") is mapped
\* to the day of the nearest day-named column on its left, if there is one;
\* every other column is unmapped.
ColumnsMappedAsClaimed ==
  pc = "done" =>
    LET row == tables[table_index][row_index - 1]
    IN /\ Len(day_columns) = Len(row)
       /\ \A c \in 1..Len(row) :
            day_columns[c] =
              IF normalize_day(Strip(row[c])) # None
              THEN normalize_day(Strip(row[c]))
              ELSE IF c > 1 /\ BlankHeaderCell(row[c]) /\ DaysLeftOf(row, c) # {}
              THEN normalize_day(Strip(row[LastIn(DaysLeftOf(row, c))]))
              ELSE None

-----------------------------------------------------------------------------
(* Properties of the table walk (SpecWalk) *)

\* The cell is neither empty nor the absent cell "nan".
IsContent(cell) == Strip(cell) # <<>> /\ Lower(Strip(cell)) # <<"nan">>

\* The row has content in a cell other than the first.
RowHasContent(row) == \E c \in 2..Len(row) : IsContent(row[c])

\* The room of the nearest row with a non-blank room among the rows of df
\* after the header row h and before row k, None when there is none.
NearestRoom(df, h, k) ==
  LET named == {j \in (h + 1)..(k - 1) : RowRoom(df[j]) # <<>>}
  IN IF named = {} THEN None ELSE RowRoom(df[LastIn(named)])

\* The room of data row k of df, None for a row that is skipped.
RoomOfRow(df, h, k) ==
  IF RowRoom(df[k]) # <<>> THEN RowRoom(df[k])
  ELSE IF RowHasContent(df[k]) THEN NearestRoom(df, h, k)
  ELSE None

\* The days and rooms of the timetables the walk builds.
WalkDays == {<<"Monday">>, <<"Tuesday">>}
WalkRooms == {RowRoom(row) : row \in DataRows} \ {<<>>}

\* The step takes the data row at row_index.
TakesRow ==
  /\ pc = "walk" /\ row_index # 0
  /\ row_index <= Len(tables[table_index])
  /\ row_index' = row_index + 1

\* C9: a row with a non-blank first cell is stored under that room, which
\* becomes the carry-over room; a blank-room (or "nan") row with content is
\* stored under the room of the nearest preceding named row of its table; a
\* blank-room row without content, or with content but no named row before
\* it in its table, stores nothing; the carry-over room is always the room
\* of the nearest named row of the same table.
RoomsCarryWithinTable ==
  [][TakesRow =>
       LET df == tables[table_index]
           h == find_header_row(df)
           room == RoomOfRow(df, h, row_index)
       IN /\ last_room' = NearestRoom(df, h, row_index + 1)
          /\ room = None => timetable' = timetable
          /\ \A day \in WalkDays, other \in WalkRooms \ {room} :
               TimetableGet(timetable', day, other)
                 = TimetableGet(timetable, day, other)
          /\ (room # None /\ \E c \in 2..Len(df[row_index]) :
                c <= Len(day_columns) /\ day_columns[c] # None
                  /\ IsContent(df[row_index][c]))
               => \E day \in WalkDays :
                    Len(TimetableGet(timetable', day, room))
                      > Len(TimetableGet(timetable, day, room))]_vars

\* A named row, a blank row without content and a blank-room row with
\* content have been taken, in this order: the last is stored under the
\* room of the first.
CarriedOverSkippedRow ==
  /\ pc = "walk" /\ row_index > 3
  /\ LET df == tables[table_index]
     IN /\ RowRoom(df[row_index - 3]) # <<>>
        /\ RowRoom(df[row_index - 2]) = <<>> /\ ~RowHasContent(df[row_index - 2])
        /\ RowRoom(df[row_index - 1]) = <<>> /\ RowHasContent(df[row_index - 1])
        /\ last_room = RowRoom(df[row_index - 3])
        /\ \E day \in WalkDays : Len(TimetableGet(timetable, day, last_room)) >= 2

\* The timetable the walk has built: the one handed to the inference once
\* the walk is over.
Walked == IF pc = "done" THEN before ELSE timetable

\* Row k of table t has been taken.
Taken(t, k) == t < table_index \/ (t = table_index /\ row_index # 0 /\ k < row_index)

\* The sessions of the logical cell of the row for the day: the cells with
\* content of the columns mapped to the day, joined by newlines in column
\* order, and parsed.
LogicalCellSessions(row, columns, day) ==
  LET IsPart(c) == c <= Len(columns) /\ columns[c] = day /\ IsContent(row[c])
      parts == SelectSeq([c \in 1..Len(row) |-> c], IsPart)
  IN IF parts = <<>> THEN <<>>
     ELSE parse_cell(Join([i \in 1..Len(parts) |-> row[parts[i]]], <<"\n">>),
                     reference_programs, resolve_truncated, keep_truncated)

\* The rows taken so far that have a room, in table order and then row
\* order, each with its room and, day by day, the sessions of its logical
\* cell.
RowsTaken ==
  Concat([t \in 1..Len(tables) |->
    LET df == tables[t]
    IN IF DfEmpty(df) THEN <<>>
       ELSE LET h == find_header_row(df)
                columns == DayColumns(HeaderOf(df[h]))
                IsStored(k) == k > h /\ Taken(t, k) /\ RoomOfRow(df, h, k) # None
                stored == SelectSeq([k \in 1..Len(df) |-> k], IsStored)
            IN [i \in 1..Len(stored) |->
                 [room |-> RoomOfRow(df, h, stored[i]),
                  sessions |-> [day \in WalkDays |->
                    LogicalCellSessions(df[stored[i]], columns, day)]]]])

\* C10: the list stored for a day and a room is the concatenation, in table
\* order and then row order, of the sessions parsed from the logical cells
\* of the rows taken so far; nothing else is stored.
StoredListsAreConcatenations ==
  /\ LET rows == RowsTaken
     IN \A day \in WalkDays, room \in WalkRooms :
          TimetableGet(Walked, day, room) =
            Concat([i \in 1..Len(rows) |->
                      IF rows[i].room = room THEN rows[i].sessions[day] ELSE <<>>])
  /\ \A d \in 1..Len(Walked) :
       /\ Walked[d].day \in WalkDays
       /\ \A r \in 1..Len(Walked[d].rooms) : Walked[d].rooms[r].room \in WalkRooms

\* Two tables have been walked and each has added the same session to the
\* list of one day and room, which holds it twice, next to a row whose two
\* cells of one day were joined into one session.
SameSessionStoredTwice ==
  /\ pc = "walk" /\ table_index = 3 /\ row_index = 0
  /\ \E day \in WalkDays, room \in WalkRooms :
       LET stored == TimetableGet(timetable, day, room)
       IN /\ Len(stored) = 2
          /\ stored[1] = stored[2]
          /\ \A t \in 1..2 : \E k \in 1..Len(tables[t]) :
               /\ k > find_header_row(tables[t])
               /\ RoomOfRow(tables[t], find_header_row(tables[t]), k) = room

====
